---- MODULE Spec2Model ----
(***************************************************************************)
(* Request/response schemas of the restaurant back office (schemas.py).    *)
(* Every class of the file is a pydantic BaseModel; the model transcribes   *)
(* each class as its ordered list of field declarations and gives           *)
(* BaseModel construction (lax-mode coercion, defaults, per-field error     *)
(* collection, from_attributes, extra keys ignored) as operators.           *)
(*                                                                          *)
(* Values are tagged records.  A str is a sequence of one-character         *)
(* strings so that lower() and endswith() are computed on characters.       *)
(* A float is held in tenths (25 is 2.5).  A datetime is a day of           *)
(* January 2024 at midnight.                                                *)
(*                                                                          *)
(* The file mixes `validator` with `Config.from_attributes`, which only     *)
(* pydantic 2 reads, so construction follows pydantic 2: a str field takes   *)
(* only a str, numbers are parsed from strings, every field's errors are     *)
(* collected, undeclared keys are ignored, model_fields_set records the      *)
(* fields that were supplied.                                                *)
(***************************************************************************)
EXTENDS Integers, Sequences, FiniteSets, TLC

VARIABLES shape, source, payload, edits, typed, pc, result, wire, reparsed

vars == <<shape, source, payload, edits, typed, pc, result, wire, reparsed>>

\* ------------------------------------------------------------------ bounds
MaxEdits == 2
MaxRecordEdits == 1
MaxChunks == 3
MaxDay == 2

\* ------------------------------------------------------------------ values
NoneV == [t |-> "none"]
IntV(n) == [t |-> "int", n |-> n]
FloatV(n) == [t |-> "float", n |-> n]
BoolV(b) == [t |-> "bool", b |-> b]
StrV(s) == [t |-> "str", s |-> s]
DtV(n) == [t |-> "datetime", n |-> n]
EnumV(s) == [t |-> "UserRole", s |-> s]
ListV(xs) == [t |-> "list", items |-> xs]
DictV(m) == [t |-> "dict", m |-> m]
ObjV(m) == [t |-> "object", m |-> m]
ModelV(sh, vals, fs) == [t |-> "model", shape |-> sh, values |-> vals, fields_set |-> fs]

EmptyMap == [k \in {} |-> NoneV]

\* ------------------------------------------------------------- characters
UpperChars == <<"A","B","C","D","E","F","G","H","I","J","K","L","M",
                "N","O","P","Q","R","S","T","U","V","W","X","Y","Z">>
LowerChars == <<"a","b","c","d","e","f","g","h","i","j","k","l","m",
                "n","o","p","q","r","s","t","u","v","w","x","y","z">>
Digits == <<"0","1","2","3","4","5","6","7","8","9">>

LowerChar(c) ==
  IF \E i \in 1..26 : UpperChars[i] = c
  THEN LowerChars[CHOOSE i \in 1..26 : UpperChars[i] = c]
  ELSE c

\* str.lower()
Lower(s) == [i \in 1..Len(s) |-> LowerChar(s[i])]

\* str.endswith(ext)
EndsWith(s, ext) ==
  /\ Len(ext) <= Len(s)
  /\ SubSeq(s, Len(s) - Len(ext) + 1, Len(s)) = ext

IsDigit(c) == \E i \in 1..10 : Digits[i] = c
DigitVal(c) == (CHOOSE i \in 1..10 : Digits[i] = c) - 1

RECURSIVE DigitsVal(_)
DigitsVal(s) ==
  IF s = <<>> THEN 0
  ELSE 10 * DigitsVal(SubSeq(s, 1, Len(s) - 1)) + DigitVal(s[Len(s)])

AllDigits(s) == Len(s) > 0 /\ \A i \in 1..Len(s) : IsDigit(s[i])

\* ------------------------------------------------------ field declarations
\* name: T                      (required)
Req(name, type) ==
  [name |-> name, type |-> type, sub |-> "", opt |-> FALSE, req |-> TRUE, default |-> NoneV]
\* name: Optional[T] = None
Opt(name, type) ==
  [name |-> name, type |-> type, sub |-> "", opt |-> TRUE, req |-> FALSE, default |-> NoneV]
\* name: T = default
Def(name, type, default) ==
  [name |-> name, type |-> type, sub |-> "", opt |-> FALSE, req |-> FALSE, default |-> default]
\* name: Optional[T] = default
OptDef(name, type, default) ==
  [name |-> name, type |-> type, sub |-> "", opt |-> TRUE, req |-> FALSE, default |-> default]
\* name: Sub
ReqModel(name, sub) ==
  [name |-> name, type |-> "model", sub |-> sub, opt |-> FALSE, req |-> TRUE, default |-> NoneV]
\* name: Optional[Sub] = None
OptModel(name, sub) ==
  [name |-> name, type |-> "model", sub |-> sub, opt |-> TRUE, req |-> FALSE, default |-> NoneV]
\* name: List[Sub]
ReqList(name, sub) ==
  [name |-> name, type |-> "list_model", sub |-> sub, opt |-> FALSE, req |-> TRUE, default |-> NoneV]
\* name: List[Sub] = []
DefList(name, sub) ==
  [name |-> name, type |-> "list_model", sub |-> sub, opt |-> FALSE, req |-> FALSE,
   default |-> ListV(<<>>)]
\* name: Optional[List[Sub]] = None
OptList(name, sub) ==
  [name |-> name, type |-> "list_model", sub |-> sub, opt |-> TRUE, req |-> FALSE, default |-> NoneV]
\* name: List[dict]
ReqDictList(name) ==
  [name |-> name, type |-> "list_dict", sub |-> "", opt |-> FALSE, req |-> TRUE, default |-> NoneV]

\* ---------------------------------------------------------------- strings
admin == <<"a","d","m","i","n">>
worker == <<"w","o","r","k","e","r">>
dine_in == <<"d","i","n","e","_","i","n">>

\* class UserRole(str, Enum)
UserRole == {admin, worker}

\* ----------------------------------------------------------------- shapes
UserResponse ==
  << Req("id", "int"), Req("username", "str"), Req("email", "str"),
     Req("full_name", "str"), Req("role", "str"), Opt("branch_id", "int"),
     Req("is_active", "bool"), Req("is_superuser", "bool"),
     Req("created_at", "datetime") >>

BranchBase ==
  << Req("name", "str"), Opt("location", "str"), Opt("address", "str"),
     Opt("phone", "str"), Opt("email", "str"), Def("is_active", "bool", BoolV(TRUE)) >>

BranchCreate == BranchBase

\* BranchUpdate derived from BranchBase, keeping name required.
BranchUpdate_FromBase == BranchBase

BranchUpdate ==
  << Opt("name", "str"), Opt("location", "str"), Opt("address", "str"),
     Opt("phone", "str"), Opt("email", "str"), Opt("is_active", "bool") >>

BranchResponse ==
  BranchBase \o << Req("id", "int"), Req("created_at", "datetime"),
                   Req("updated_at", "datetime") >>

ExpenseCategoryBase ==
  << Req("name", "str"), Opt("description", "str"), Def("is_active", "bool", BoolV(TRUE)) >>

ExpenseCategoryResponse ==
  ExpenseCategoryBase \o << Req("id", "int"), Req("created_at", "datetime") >>

\* DailyExpenseBase with expense_date defaulting to a timestamp.
DailyExpenseBase_DateDefault ==
  << Req("category", "str"), Req("item_name", "str"), Opt("description", "str"),
     Opt("quantity", "float"), Opt("unit", "str"), Req("unit_cost", "float"),
     Req("total_amount", "float"), OptDef("expense_date", "datetime", DtV(1)),
     Opt("receipt_number", "str"), Opt("vendor", "str") >>

DailyExpenseBase ==
  << Req("category", "str"), Req("item_name", "str"), Opt("description", "str"),
     Opt("quantity", "float"), Opt("unit", "str"), Req("unit_cost", "float"),
     Req("total_amount", "float"), Opt("expense_date", "datetime"),
     Opt("receipt_number", "str"), Opt("vendor", "str") >>

DailyExpenseCreate == DailyExpenseBase \o << Req("branch_id", "int") >>

DailyExpenseUpdate ==
  << Opt("category", "str"), Opt("item_name", "str"), Opt("description", "str"),
     Opt("quantity", "float"), Opt("unit", "str"), Opt("unit_cost", "float"),
     Opt("total_amount", "float"), Opt("expense_date", "datetime"),
     Opt("receipt_number", "str"), Opt("vendor", "str") >>

DailyExpenseResponse ==
  DailyExpenseBase \o << Req("id", "int"), Req("branch_id", "int"),
                         Req("created_by", "int"), Req("created_at", "datetime") >>

QuickExpenseCreate ==
  << Req("item_name", "str"), Req("quantity", "float"), Req("unit", "str"),
     Req("branch_id", "int"), Opt("expense_date", "datetime") >>

IngredientBase ==
  << Req("name", "str"), Req("quantity", "float"), Req("unit", "str"),
     Opt("image_url", "str") >>

IngredientCreate == IngredientBase

IngredientUpdate ==
  << Opt("name", "str"), Opt("quantity", "float"), Opt("unit", "str"),
     Opt("image_url", "str") >>

IngredientResponse ==
  IngredientBase \o << Req("id", "int"), Req("menu_item_id", "int") >>

MenuItemBase ==
  << Req("name", "str"), Req("price", "float"), Opt("description", "str"),
     Opt("image_url", "str"), Opt("category", "str"),
     Def("is_available", "bool", BoolV(TRUE)), Opt("branch_id", "int") >>

MenuItemCreate == MenuItemBase \o << DefList("ingredients", "IngredientCreate") >>

MenuItemUpdate ==
  << Opt("name", "str"), Opt("price", "float"), Opt("description", "str"),
     Opt("image_url", "str"), Opt("category", "str"), Opt("is_available", "bool"),
     Opt("branch_id", "int"), OptList("ingredients", "IngredientCreate") >>

MenuItemResponse ==
  MenuItemBase \o << Req("id", "int"), DefList("ingredients", "IngredientResponse"),
                     Req("created_at", "datetime"), Req("updated_at", "datetime") >>

\* OrderItemCreate with the menu item id declared str, as before the fix.
OrderItemCreate_StrId ==
  << Req("menu_item_id", "str"), Req("quantity", "int"),
     Opt("special_instructions", "str") >>

OrderItemCreate ==
  << Req("menu_item_id", "int"), Req("quantity", "int"),
     Opt("special_instructions", "str") >>

OrderItemResponse ==
  << Req("id", "int"), Req("menu_item_id", "int"), Req("quantity", "int"),
     Req("unit_price", "float"), Req("total_price", "float"),
     Opt("special_instructions", "str"), OptModel("menu_item", "MenuItemResponse") >>

\* OrderCreate with order_type required.
OrderCreate_TypeRequired ==
  << Req("branch_id", "int"), Opt("customer_name", "str"), Opt("customer_email", "str"),
     Req("order_type", "str"), ReqList("items", "OrderItemCreate") >>

\* OrderCreate taking the order's total and status from the client.
OrderCreate_ClientTotal ==
  << Req("branch_id", "int"), Opt("customer_name", "str"), Opt("customer_email", "str"),
     Def("order_type", "str", StrV(dine_in)), ReqList("items", "OrderItemCreate"),
     Opt("total_amount", "float"), Opt("status", "str") >>

OrderCreate ==
  << Req("branch_id", "int"), Opt("customer_name", "str"), Opt("customer_email", "str"),
     Def("order_type", "str", StrV(dine_in)), ReqList("items", "OrderItemCreate") >>

OrderUpdate ==
  << Opt("status", "str"), Opt("customer_name", "str"), Opt("customer_email", "str") >>

OrderResponse ==
  << Req("id", "int"), Req("branch_id", "int"), Opt("customer_name", "str"),
     Opt("customer_email", "str"), Req("total_amount", "float"), Req("status", "str"),
     Req("order_type", "str"), Req("created_at", "datetime"),
     Opt("completed_at", "datetime"), DefList("items", "OrderItemResponse") >>

DailySaleCreate ==
  << Req("menu_item_id", "int"), Req("branch_id", "int"), Req("quantity", "int") >>

DailySaleResponse ==
  << Req("id", "int"), Req("menu_item_id", "int"), Req("branch_id", "int"),
     Req("quantity", "int"), Req("revenue", "float"), Req("sale_date", "datetime"),
     OptModel("menu_item", "MenuItemResponse") >>

SalesSummary ==
  << Req("date", "str"), Opt("branch_id", "int"), Req("total_items_sold", "int"),
     Req("total_revenue", "float"), ReqDictList("sales_by_item") >>

AdminBase ==
  << Req("username", "str"), Req("email", "EmailStr"), Opt("full_name", "str"),
     Def("role", "UserRole", EnumV(worker)), Opt("branch_id", "int") >>

AdminCreate == AdminBase \o << Req("password", "str") >>

AdminUpdate ==
  << Opt("username", "str"), Opt("email", "EmailStr"), Opt("full_name", "str"),
     Opt("role", "UserRole"), Opt("branch_id", "int"), Opt("is_active", "bool") >>

AdminLogin == << Req("username", "str"), Req("password", "str") >>

\* AdminResponse derived from AdminCreate instead of AdminBase.
AdminResponse_FromCreate ==
  AdminCreate \o << Req("id", "int"), Req("is_active", "bool"), Req("is_superuser", "bool"),
                    Req("created_at", "datetime"), Opt("last_login", "datetime"),
                    OptModel("branch", "BranchResponse") >>

AdminResponse ==
  AdminBase \o << Req("id", "int"), Req("is_active", "bool"), Req("is_superuser", "bool"),
                  Req("created_at", "datetime"), Opt("last_login", "datetime"),
                  OptModel("branch", "BranchResponse") >>

Token ==
  << Req("access_token", "str"), Req("token_type", "str"),
     ReqModel("user", "AdminResponse") >>

TokenData == << Opt("username", "str") >>

InventoryBase ==
  << Req("item_name", "str"), Req("current_stock", "float"), Req("unit", "str"),
     OptDef("minimum_threshold", "float", IntV(0)), Opt("cost_per_unit", "float"),
     Opt("supplier", "str"), Req("branch_id", "int") >>

InventoryCreate == InventoryBase

InventoryUpdate ==
  << Opt("item_name", "str"), Opt("current_stock", "float"), Opt("unit", "str"),
     Opt("minimum_threshold", "float"), Opt("cost_per_unit", "float"),
     Opt("supplier", "str") >>

InventoryResponse ==
  InventoryBase \o << Req("id", "int"), Opt("last_restocked", "datetime"),
                      Req("created_at", "datetime"), Req("updated_at", "datetime") >>

DailyReportResponse ==
  << Req("id", "int"), Req("branch_id", "int"), Req("report_date", "datetime"),
     Req("total_sales", "int"), Req("total_revenue", "float"),
     Req("total_expenses", "float"), Req("net_profit", "float"),
     Opt("top_selling_item", "str"), Req("export_status", "str"),
     Opt("exported_at", "datetime"), Req("created_at", "datetime") >>

DashboardSummary ==
  << Opt("branch_id", "int"), Req("today_sales", "int"), Req("today_revenue", "float"),
     Req("today_expenses", "float"), Req("net_profit", "float"),
     Req("pending_orders", "int"), Req("low_stock_items", "int"),
     ReqDictList("top_selling_items"), ReqList("recent_orders", "OrderResponse"),
     ReqDictList("expense_breakdown") >>

ImageUploadResponse ==
  << Req("url", "str"), Req("filename", "str"), Req("size", "int") >>

\* The classes of the file, by name.
Fields(sh) ==
  CASE sh = "UserResponse" -> UserResponse
    [] sh = "BranchCreate" -> BranchCreate
    [] sh = "BranchUpdate" -> BranchUpdate
    [] sh = "BranchResponse" -> BranchResponse
    [] sh = "ExpenseCategoryResponse" -> ExpenseCategoryResponse
    [] sh = "DailyExpenseCreate" -> DailyExpenseCreate
    [] sh = "DailyExpenseUpdate" -> DailyExpenseUpdate
    [] sh = "DailyExpenseResponse" -> DailyExpenseResponse
    [] sh = "QuickExpenseCreate" -> QuickExpenseCreate
    [] sh = "IngredientCreate" -> IngredientCreate
    [] sh = "IngredientUpdate" -> IngredientUpdate
    [] sh = "IngredientResponse" -> IngredientResponse
    [] sh = "MenuItemCreate" -> MenuItemCreate
    [] sh = "MenuItemUpdate" -> MenuItemUpdate
    [] sh = "MenuItemResponse" -> MenuItemResponse
    [] sh = "OrderItemCreate" -> OrderItemCreate
    [] sh = "OrderItemResponse" -> OrderItemResponse
    [] sh = "OrderCreate" -> OrderCreate
    [] sh = "OrderUpdate" -> OrderUpdate
    [] sh = "OrderResponse" -> OrderResponse
    [] sh = "DailySaleCreate" -> DailySaleCreate
    [] sh = "DailySaleResponse" -> DailySaleResponse
    [] sh = "SalesSummary" -> SalesSummary
    [] sh = "AdminCreate" -> AdminCreate
    [] sh = "AdminUpdate" -> AdminUpdate
    [] sh = "AdminLogin" -> AdminLogin
    [] sh = "AdminResponse" -> AdminResponse
    [] sh = "Token" -> Token
    [] sh = "TokenData" -> TokenData
    [] sh = "InventoryCreate" -> InventoryCreate
    [] sh = "InventoryUpdate" -> InventoryUpdate
    [] sh = "InventoryResponse" -> InventoryResponse
    [] sh = "DailyReportResponse" -> DailyReportResponse
    [] sh = "DashboardSummary" -> DashboardSummary
    [] sh = "ImageUploadResponse" -> ImageUploadResponse

FieldNames(sh) == {Fields(sh)[i].name : i \in 1..Len(Fields(sh))}
FieldOf(sh, f) == Fields(sh)[CHOOSE i \in 1..Len(Fields(sh)) : Fields(sh)[i].name = f]

\* The Config block left off AdminResponse.
FromAttributes_NoAdmin ==
  {"UserResponse", "BranchResponse", "ExpenseCategoryResponse", "DailyExpenseResponse",
   "IngredientResponse", "MenuItemResponse", "OrderItemResponse", "OrderResponse",
   "DailySaleResponse", "InventoryResponse", "DailyReportResponse"}

\* class Config: from_attributes = True
FromAttributes ==
  {"UserResponse", "BranchResponse", "ExpenseCategoryResponse", "DailyExpenseResponse",
   "IngredientResponse", "MenuItemResponse", "OrderItemResponse", "OrderResponse",
   "DailySaleResponse", "AdminResponse", "InventoryResponse", "DailyReportResponse"}

\* ------------------------------------------------ lax-mode type coercion
Ok(v) == [ok |-> TRUE, value |-> v, errors |-> {}]
Err(msg) == [ok |-> FALSE, value |-> NoneV, errors |-> {[loc |-> <<>>, msg |-> msg]}]
Errs(es) == [ok |-> FALSE, value |-> NoneV, errors |-> es]

\* int: an int, a float without fractional part, a string of digits
CoerceInt(v) ==
  CASE v.t = "int" -> Ok(v)
    [] v.t = "float" ->
         IF v.n % 10 = 0 THEN Ok(IntV(v.n \div 10))
         ELSE Err("Input should be a valid integer, got a number with a fractional part")
    [] v.t = "str" ->
         IF AllDigits(v.s) THEN Ok(IntV(DigitsVal(v.s)))
         ELSE Err("Input should be a valid integer, unable to parse string as an integer")
    [] v.t = "bool" -> Ok(IntV(IF v.b THEN 1 ELSE 0))
    [] OTHER -> Err("Input should be a valid integer")

\* "d...d" or "d...d.d" read in tenths
IsDecimal(s) ==
  \/ AllDigits(s)
  \/ /\ Len(s) >= 3
     /\ s[Len(s) - 1] = "."
     /\ IsDigit(s[Len(s)])
     /\ AllDigits(SubSeq(s, 1, Len(s) - 2))
Tenths(s) ==
  IF AllDigits(s) THEN 10 * DigitsVal(s)
  ELSE 10 * DigitsVal(SubSeq(s, 1, Len(s) - 2)) + DigitVal(s[Len(s)])

\* float: a float, an int, a numeric string
CoerceFloat(v) ==
  CASE v.t = "float" -> Ok(v)
    [] v.t = "int" -> Ok(FloatV(10 * v.n))
    [] v.t = "str" ->
         IF IsDecimal(v.s) THEN Ok(FloatV(Tenths(v.s)))
         ELSE Err("Input should be a valid number, unable to parse string as a number")
    [] v.t = "bool" -> Ok(FloatV(IF v.b THEN 10 ELSE 0))
    [] OTHER -> Err("Input should be a valid number")

\* str: only a str (numbers are not turned into strings)
CoerceStr(v) ==
  IF v.t = "str" THEN Ok(v) ELSE Err("Input should be a valid string")

TrueWords == { <<"1">>, <<"t">>, <<"y">>, <<"o","n">>, <<"y","e","s">>, <<"t","r","u","e">> }
FalseWords == { <<"0">>, <<"f">>, <<"n">>, <<"n","o">>, <<"o","f","f">>,
                <<"f","a","l","s","e">> }

\* bool: a bool, 0 or 1, one of the truth words in any case
CoerceBool(v) ==
  CASE v.t = "bool" -> Ok(v)
    [] v.t = "int" /\ v.n \in {0, 1} -> Ok(BoolV(v.n = 1))
    [] v.t = "float" /\ v.n \in {0, 10} -> Ok(BoolV(v.n = 10))
    [] v.t = "str" /\ Lower(v.s) \in TrueWords -> Ok(BoolV(TRUE))
    [] v.t = "str" /\ Lower(v.s) \in FalseWords -> Ok(BoolV(FALSE))
    [] OTHER -> Err("Input should be a valid boolean")

\* datetime.isoformat() of day n of January 2024, midnight
IsoFormat(n) ==
  <<"2","0","2","4","-","0","1","-">> \o <<Digits[(n \div 10) + 1], Digits[(n % 10) + 1]>>
    \o <<"T","0","0",":","0","0",":","0","0">>

IsIso(s) ==
  /\ Len(s) = 19
  /\ SubSeq(s, 1, 8) = <<"2","0","2","4","-","0","1","-">>
  /\ SubSeq(s, 11, 19) = <<"T","0","0",":","0","0",":","0","0">>
  /\ IsDigit(s[9]) /\ IsDigit(s[10])
  /\ DigitsVal(SubSeq(s, 9, 10)) \in 1..31

\* datetime: a datetime or an ISO-8601 string (numbers, read as unix
\* timestamps, are never drawn for a datetime field)
CoerceDatetime(v) ==
  CASE v.t = "datetime" -> Ok(v)
    [] v.t = "str" ->
         IF IsIso(v.s) THEN Ok(DtV(DigitsVal(SubSeq(v.s, 9, 10))))
         ELSE Err("Input should be a valid datetime, invalid character in year")
    [] OTHER -> Err("Input should be a valid datetime")

AtPositions(s) == {i \in 1..Len(s) : s[i] = "@"}
\* local@domain with a dotted domain
IsEmail(s) ==
  /\ Cardinality(AtPositions(s)) = 1
  /\ LET at == CHOOSE i \in AtPositions(s) : TRUE
     IN /\ at > 1
        /\ \E d \in (at + 2)..(Len(s) - 1) : s[d] = "."
        /\ s[at + 1] # "." 
\* the domain part is lower-cased
NormalizeEmail(s) ==
  LET at == CHOOSE i \in AtPositions(s) : TRUE
  IN SubSeq(s, 1, at) \o Lower(SubSeq(s, at + 1, Len(s)))

\* EmailStr
CoerceEmail(v) ==
  IF v.t # "str" THEN Err("Input should be a valid string")
  ELSE IF IsEmail(v.s) THEN Ok(StrV(NormalizeEmail(v.s)))
  ELSE Err("value is not a valid email address")

\* UserRole: a member, or a string equal to a member's value
CoerceRole(v) ==
  CASE v.t = "UserRole" -> Ok(v)
    [] v.t = "str" /\ v.s \in UserRole -> Ok(EnumV(v.s))
    [] OTHER -> Err("Input should be 'admin' or 'worker'")

CoerceScalar(type, v) ==
  CASE type = "int" -> CoerceInt(v)
    [] type = "float" -> CoerceFloat(v)
    [] type = "str" -> CoerceStr(v)
    [] type = "bool" -> CoerceBool(v)
    [] type = "datetime" -> CoerceDatetime(v)
    [] type = "EmailStr" -> CoerceEmail(v)
    [] type = "UserRole" -> CoerceRole(v)

\* ----------------------------------------------------- image url validator
allowed_extensions ==
  << <<".","j","p","g">>, <<".","j","p","e","g">>, <<".","p","n","g">>,
     <<".","w","e","b","p">>, <<".","g","i","f">> >>

\* The validator without the lower-casing of the url.
validate_image_url_NoLower(v) ==
  IF ~ \E i \in 1..Len(allowed_extensions) : EndsWith(v, allowed_extensions[i])
  THEN [raised |-> TRUE, msg |-> "Invalid image format", value |-> v]
  ELSE [raised |-> FALSE, msg |-> "", value |-> v]

\* @validator("url"): the value, or the ValueError raised
validate_image_url(v) ==
  IF ~ \E i \in 1..Len(allowed_extensions) : EndsWith(Lower(v), allowed_extensions[i])
  THEN [raised |-> TRUE, msg |-> "Invalid image format", value |-> v]
  ELSE [raised |-> FALSE, msg |-> "", value |-> v]

HasValidator(sh, f) == sh = "ImageUploadResponse" /\ f = "url"

\* The validator runs on a url that passed the str check; the error carries
\* the text of the ValueError raised.

RunValidators(sh, f, r) ==
  IF r.ok /\ HasValidator(sh, f) /\ r.value.t = "str"
  THEN LET out == validate_image_url(r.value.s)
       IN IF out.raised THEN Err(out.msg) ELSE Ok(StrV(out.value))
  ELSE r

\* ------------------------------------------------- BaseModel construction
IdxName(i) == <<Digits[i]>>
Prefix(loc, es) == {[loc |-> <<loc>> \o e.loc, msg |-> e.msg] : e \in es}

RECURSIVE ValidateValue(_, _, _), ValidateModel(_, _, _), ValidateFields(_, _, _, _, _),
          ValidateItems(_, _, _, _), ValidateFields_FailFast(_, _, _, _, _)

\* One declared field's value: None for an Optional, else by the field's type.
ValidateValue(sh, fd, v) ==
  IF fd.opt /\ v.t = "none" THEN Ok(NoneV)
  ELSE CASE fd.type = "model" ->
              CASE v.t = "dict" -> ValidateModel(fd.sub, v.m, "dict")
                [] v.t = "object" -> ValidateModel(fd.sub, v.m, "object")
                [] v.t = "model" /\ v.shape = fd.sub -> Ok(v)
                [] OTHER -> Err("Input should be a valid dictionary or object")
         [] fd.type = "list_model" ->
              IF v.t = "list" THEN ValidateItems(fd, v.items, 1, [vals |-> <<>>, errors |-> {}])
              ELSE Err("Input should be a valid list")
         [] fd.type = "list_dict" ->
              IF v.t # "list" THEN Err("Input should be a valid list")
              ELSE LET bad == {i \in 1..Len(v.items) : v.items[i].t # "dict"}
                   IN IF bad = {} THEN Ok(v)
                      ELSE Errs({[loc |-> <<IdxName(i)>>,
                                  msg |-> "Input should be a valid dictionary"] : i \in bad})
         [] OTHER -> RunValidators(sh, fd.name, CoerceScalar(fd.type, v))

\* The elements of a List[Sub], in order; every element's errors are kept.
ValidateItems(fd, items, i, acc) ==
  IF i > Len(items)
  THEN IF acc.errors = {} THEN Ok(ListV(acc.vals)) ELSE Errs(acc.errors)
  ELSE LET r == ValidateValue(fd.sub, [fd EXCEPT !.type = "model", !.opt = FALSE], items[i])
       IN ValidateItems(fd, items, i + 1,
            IF r.ok THEN [acc EXCEPT !.vals = Append(@, r.value)]
            ELSE [acc EXCEPT !.errors = @ \cup Prefix(IdxName(i), r.errors)])

\* Field validation that stops at the first field in error.
ValidateFields_FailFast(sh, fds, m, i, acc) ==
  IF i > Len(fds) \/ acc.errors # {} THEN acc
  ELSE LET fd == fds[i]
       IN IF fd.name \in DOMAIN m
          THEN LET r == ValidateValue(sh, fd, m[fd.name])
               IN ValidateFields_FailFast(sh, fds, m, i + 1,
                    IF r.ok
                    THEN [acc EXCEPT !.values = @ @@ (fd.name :> r.value),
                                     !.fields_set = @ \cup {fd.name}]
                    ELSE [acc EXCEPT !.errors = @ \cup Prefix(fd.name, r.errors)])
          ELSE ValidateFields_FailFast(sh, fds, m, i + 1,
                    IF fd.req
                    THEN [acc EXCEPT !.errors = @ \cup {[loc |-> <<fd.name>>,
                                                         msg |-> "Field required"]}]
                    ELSE [acc EXCEPT !.values = @ @@ (fd.name :> fd.default)])

\* The declared fields in order: a supplied value is validated, a missing
\* required field is an error, a missing optional field takes its default
\* unvalidated.  Keys of the input that are not declared are never read.
ValidateFields(sh, fds, m, i, acc) ==
  IF i > Len(fds) THEN acc
  ELSE LET fd == fds[i]
       IN IF fd.name \in DOMAIN m
          THEN LET r == ValidateValue(sh, fd, m[fd.name])
               IN ValidateFields(sh, fds, m, i + 1,
                    IF r.ok
                    THEN [acc EXCEPT !.values = @ @@ (fd.name :> r.value),
                                     !.fields_set = @ \cup {fd.name}]
                    ELSE [acc EXCEPT !.errors = @ \cup Prefix(fd.name, r.errors)])
          ELSE ValidateFields(sh, fds, m, i + 1,
                    IF fd.req
                    THEN [acc EXCEPT !.errors = @ \cup {[loc |-> <<fd.name>>,
                                                         msg |-> "Field required"]}]
                    ELSE [acc EXCEPT !.values = @ @@ (fd.name :> fd.default)])

\* Shape(**m) for a mapping, Shape.model_validate(obj) for an object: an
\* object is read by attribute only under Config.from_attributes.
ValidateModel(sh, m, kind) ==
  IF kind = "object" /\ sh \notin FromAttributes
  THEN Err("Input should be a valid dictionary or instance of the model")
  ELSE LET acc == ValidateFields(sh, Fields(sh), m, 1,
                    [values |-> EmptyMap, fields_set |-> {}, errors |-> {}])
       IN IF acc.errors = {} THEN Ok(ModelV(sh, acc.values, acc.fields_set))
          ELSE Errs(acc.errors)

\* ------------------------------------------------ model_dump(mode="json")
RECURSIVE DumpValue(_)
DumpValue(v) ==
  CASE v.t = "datetime" -> StrV(IsoFormat(v.n))
    [] v.t = "UserRole" -> StrV(v.s)
    [] v.t = "model" -> DictV([f \in DOMAIN v.values |-> DumpValue(v.values[f])])
    [] v.t = "list" -> ListV([i \in 1..Len(v.items) |-> DumpValue(v.items[i])])
    [] OTHER -> v

\* ------------------------------------------------------- inputs drawn
a_png == <<"a",".","p","n","g">>
a_exe == <<"a",".","e","x","e">>
Admin == <<"A","d","m","i","n">>
manager == <<"m","a","n","a","g","e","r">>
a_at_b == <<"a","@","B",".","c","o">>

RECURSIVE BasePayload(_)

\* A value the field accepts.
BaseValue(sh, fd) ==
  CASE fd.type = "int" -> IntV(1)
    [] fd.type = "float" -> FloatV(25)
    [] fd.type = "str" ->
         IF HasValidator(sh, fd.name) THEN StrV(a_png)
         ELSE IF fd.name = "role" THEN StrV(admin)
         ELSE StrV(<<"a">>)
    [] fd.type = "bool" -> BoolV(TRUE)
    [] fd.type = "datetime" -> DtV(1)
    [] fd.type = "EmailStr" -> StrV(a_at_b)
    [] fd.type = "UserRole" -> StrV(admin)
    [] fd.type = "model" -> IF fd.opt THEN NoneV ELSE DictV(BasePayload(fd.sub))
    [] fd.type = "list_model" -> ListV(<<>>)
    [] fd.type = "list_dict" -> ListV(<<>>)

\* A payload that supplies every declared field with a value it accepts.
BasePayload(sh) == [f \in FieldNames(sh) |-> BaseValue(sh, FieldOf(sh, f))]

RequiredNames(sh) == {f \in FieldNames(sh) : FieldOf(sh, f).req}
\* The base payload of sh without one of its required fields, if it has one.
BrokenPayload(sh) ==
  LET drop == IF RequiredNames(sh) = {} THEN {}
              ELSE {FieldOf(sh, CHOOSE f \in RequiredNames(sh) : TRUE).name}
  IN [f \in FieldNames(sh) \ drop |-> BasePayload(sh)[f]]

\* The values a client may put under a declared field.
Candidates(sh, fd) ==
  {NoneV} \cup
  CASE fd.name = "role" ->
         {StrV(admin), StrV(worker), StrV(Admin), StrV(manager), IntV(2)}
    [] fd.type = "int" -> {IntV(2), StrV(<<"7">>), StrV(<<"x">>), FloatV(15)}
    [] fd.type = "float" -> {FloatV(5), IntV(3), StrV(<<"2",".","5">>), StrV(<<"x">>)}
    [] fd.type = "str" /\ fd.name # "role" ->
         IF HasValidator(sh, fd.name) THEN {StrV(a_exe), ListV(<<>>)}
         ELSE {StrV(<<"b">>), ListV(<<>>)}
    [] fd.type = "bool" -> {BoolV(FALSE), IntV(1), StrV(<<"x">>)}
    [] fd.type = "datetime" ->
         {DtV(d) : d \in 2..MaxDay} \cup {StrV(IsoFormat(MaxDay)), StrV(<<"x">>)}
    [] fd.type = "EmailStr" -> {StrV(<<"x">>), IntV(2)}
    [] fd.type = "model" ->
         {DictV(BasePayload(fd.sub)), ObjV(BasePayload(fd.sub)),
          DictV(BrokenPayload(fd.sub)), StrV(<<"x">>)}
    [] fd.type = "list_model" ->
         {ListV(<<>>), ListV(<<DictV(BasePayload(fd.sub))>>),
          ListV(<<ObjV(BasePayload(fd.sub))>>),
          ListV(<<DictV(BasePayload(fd.sub)), DictV(BrokenPayload(fd.sub))>>),
          ListV(<<DictV(BrokenPayload(fd.sub)), StrV(<<"x">>)>>), StrV(<<"x">>)}
    [] fd.type = "list_dict" ->
         {ListV(<<DictV(EmptyMap)>>), ListV(<<IntV(1)>>), StrV(<<"x">>)}

\* Keys a payload or record may carry that the shape may not declare.
ExtraKeys == {"password", "hashed_password", "total_amount", "status"}
ExtraValues == {StrV(<<"s">>), IntV(9)}

Chunks ==
  { <<".">>, <<"a">>, <<"/">>, <<"j","p","g">>, <<"J","P","G">>, <<"j","p","e","g">>,
    <<"P","n","g">>, <<"w","e","b","p">>, <<"g","i","f">>, <<"G","i","F">>,
    <<"b","m","p">>, <<"e","x","e">> }

\* The output shapes and the input shape that creates the same entity.
InputShapeOf ==
  [sh \in {"BranchResponse", "DailyExpenseResponse", "IngredientResponse",
           "MenuItemResponse", "OrderItemResponse", "OrderResponse",
           "DailySaleResponse", "AdminResponse", "InventoryResponse"} |->
     CASE sh = "BranchResponse" -> "BranchCreate"
       [] sh = "DailyExpenseResponse" -> "DailyExpenseCreate"
       [] sh = "IngredientResponse" -> "IngredientCreate"
       [] sh = "MenuItemResponse" -> "MenuItemCreate"
       [] sh = "OrderItemResponse" -> "OrderItemCreate"
       [] sh = "OrderResponse" -> "OrderCreate"
       [] sh = "DailySaleResponse" -> "DailySaleCreate"
       [] sh = "AdminResponse" -> "AdminCreate"
       [] sh = "InventoryResponse" -> "InventoryCreate"]

\* ---------------------------------------------------------- state machine
NoResult == [ok |-> FALSE, value |-> NoneV, errors |-> {}]

\* A request for one of `shapes` arrives as a mapping or as a record
\* (`sources`), complete or empty (`starts`).
InitOf(shapes, sources, starts) ==
  /\ shape \in shapes
  /\ source \in sources
  /\ \E st \in starts :
       payload = IF st = "base" THEN BasePayload(shape) ELSE EmptyMap
  /\ edits = 0
  /\ typed = 0
  /\ pc = "input"
  /\ result = NoResult
  /\ wire = EmptyMap
  /\ reparsed = NoResult

\* How far the input may depart from its start: a client's mapping in
\* MaxEdits keys, a record of the persistence layer in MaxRecordEdits attributes.
EditBound == IF source = "object" THEN MaxRecordEdits ELSE MaxEdits

\* The caller puts a value under a key of the payload.
SetField ==
  /\ pc = "input"
  /\ edits < EditBound
  /\ \E f \in FieldNames(shape) \cup ExtraKeys :
       \E v \in IF f \in FieldNames(shape) THEN Candidates(shape, FieldOf(shape, f))
                ELSE ExtraValues :
         payload' = (f :> v) @@ payload
  /\ edits' = edits + 1
  /\ UNCHANGED <<shape, source, typed, pc, result, wire, reparsed>>

\* The caller leaves a key out of the payload.
DelField ==
  /\ pc = "input"
  /\ edits < EditBound
  /\ \E f \in DOMAIN payload :
       payload' = [k \in DOMAIN payload \ {f} |-> payload[k]]
  /\ edits' = edits + 1
  /\ UNCHANGED <<shape, source, typed, pc, result, wire, reparsed>>

\* The caller extends the url of an image upload.
AppendChunk ==
  /\ pc = "input"
  /\ typed < MaxChunks
  /\ "url" \in DOMAIN payload
  /\ payload["url"].t = "str"
  /\ \E c \in Chunks :
       payload' = [payload EXCEPT !["url"] = StrV(@.s \o c)]
  /\ typed' = typed + 1
  /\ UNCHANGED <<shape, source, edits, pc, result, wire, reparsed>>

\* The shape is constructed from the payload.
Construct ==
  /\ pc = "input"
  /\ result' = ValidateModel(shape, payload, source)
  /\ pc' = "built"
  /\ UNCHANGED <<shape, source, payload, edits, typed, wire, reparsed>>

\* A constructed output instance is serialized to its wire mapping.
Dump ==
  /\ pc = "built"
  /\ result.ok
  /\ shape \in DOMAIN InputShapeOf
  /\ wire' = DumpValue(result.value).m
  /\ pc' = "dumped"
  /\ UNCHANGED <<shape, source, payload, edits, typed, result, reparsed>>

\* The wire mapping is parsed with the corresponding input shape.
Reparse ==
  /\ pc = "dumped"
  /\ reparsed' = ValidateModel(InputShapeOf[shape], wire, "dict")
  /\ pc' = "reparsed"
  /\ UNCHANGED <<shape, source, payload, edits, typed, result, wire>>

Next == SetField \/ DelField \/ Construct
NextImage == AppendChunk \/ Construct
NextRoundTrip == SetField \/ DelField \/ Construct \/ Dump \/ Reparse

Shapes ==
  {"UserResponse", "BranchCreate", "BranchUpdate", "BranchResponse",
   "ExpenseCategoryResponse", "DailyExpenseCreate", "DailyExpenseUpdate",
   "DailyExpenseResponse", "QuickExpenseCreate", "IngredientCreate", "IngredientUpdate",
   "IngredientResponse", "MenuItemCreate", "MenuItemUpdate", "MenuItemResponse",
   "OrderItemCreate", "OrderItemResponse", "OrderCreate", "OrderUpdate", "OrderResponse",
   "DailySaleCreate", "DailySaleResponse", "SalesSummary", "AdminCreate", "AdminUpdate",
   "AdminLogin", "AdminResponse", "Token", "TokenData", "InventoryCreate",
   "InventoryUpdate", "InventoryResponse", "DailyReportResponse", "DashboardSummary",
   "ImageUploadResponse"}

Init == InitOf(Shapes, {"dict"}, {"base", "empty"})
Spec == Init /\ [][Next]_vars

\* ------------------------------------------------------------ shape groups
InputShapes ==
  {"BranchCreate", "BranchUpdate", "DailyExpenseCreate", "DailyExpenseUpdate",
   "QuickExpenseCreate", "IngredientCreate", "IngredientUpdate", "MenuItemCreate",
   "MenuItemUpdate", "OrderItemCreate", "OrderCreate", "OrderUpdate", "DailySaleCreate",
   "AdminCreate", "AdminUpdate", "AdminLogin", "InventoryCreate", "InventoryUpdate"}

UpdateShapes ==
  {"BranchUpdate", "DailyExpenseUpdate", "IngredientUpdate", "MenuItemUpdate",
   "OrderUpdate", "AdminUpdate", "InventoryUpdate"}

ResponseShapes ==
  {"UserResponse", "BranchResponse", "ExpenseCategoryResponse", "DailyExpenseResponse",
   "IngredientResponse", "MenuItemResponse", "OrderItemResponse", "OrderResponse",
   "DailySaleResponse", "AdminResponse", "InventoryResponse", "DailyReportResponse",
   "ImageUploadResponse"}

OutputShapes == ResponseShapes \cup {"Token", "SalesSummary", "DashboardSummary"}

RoleShapes == {"UserResponse", "AdminCreate", "AdminUpdate", "AdminResponse"}

\* ------------------------------------------------------- specifications
\* An image upload response whose url the caller builds chunk by chunk.
InitImage ==
  /\ shape = "ImageUploadResponse"
  /\ source = "dict"
  /\ payload = [BasePayload("ImageUploadResponse") EXCEPT !["url"] = StrV(<<>>)]
  /\ edits = 0
  /\ typed = 0
  /\ pc = "input"
  /\ result = NoResult
  /\ wire = EmptyMap
  /\ reparsed = NoResult
SpecImage == InitImage /\ [][NextImage]_vars

InitRole == InitOf(RoleShapes, {"dict"}, {"base"})
SpecRole == InitRole /\ [][Next]_vars

InitInput == InitOf(InputShapes \cup {"ImageUploadResponse"}, {"dict"}, {"base"})
SpecInput == InitInput /\ [][Next]_vars

InitProject == InitOf(FromAttributes, {"object"}, {"base"})
SpecProject == InitProject /\ [][Next]_vars

InitUpdate == InitOf(UpdateShapes, {"dict"}, {"base", "empty"})
SpecUpdate == InitUpdate /\ [][Next]_vars

InitOutput == InitOf(OutputShapes, {"object"}, {"base"})
SpecOutput == InitOutput /\ [][Next]_vars

InitOrder == InitOf({"OrderCreate", "OrderUpdate"}, {"dict"}, {"base", "empty"})
SpecOrder == InitOrder /\ [][Next]_vars

InitRoundTrip == InitOf(DOMAIN InputShapeOf, {"dict"}, {"base"})
SpecRoundTrip == InitRoundTrip /\ [][NextRoundTrip]_vars

InitExpense == InitOf({"DailyExpenseCreate"}, {"dict"}, {"base", "empty"})
SpecExpense == InitExpense /\ [][Next]_vars

\* ------------------------------------------------------------------ claims
ImageExtensions ==
  { <<".","j","p","g">>, <<".","j","p","e","g">>, <<".","p","n","g">>,
    <<".","w","e","b","p">>, <<".","g","i","f">> }
\* s, lower-cased, has one of the image extensions as a suffix
HasImageSuffix(s) ==
  \E k \in 0..Len(s) : Lower(SubSeq(s, k + 1, Len(s))) \in ImageExtensions

\* C1: with a valid filename and size, ImageUploadResponse is constructed
\* exactly when the lower-cased url ends with .jpg, .jpeg, .png, .webp or
\* .gif; otherwise construction fails with the single error "Invalid image
\* format" on url, whatever precedes the extension.
C1_ImageUrlIffExtension ==
  (pc = "built" /\ shape = "ImageUploadResponse")
    => LET s == payload["url"].s
       IN /\ result.ok <=> HasImageSuffix(s)
          /\ result.ok => result.value.values["url"] = StrV(s)
          /\ ~ result.ok =>
               result.errors = {[loc |-> <<"url">>, msg |-> "Invalid image format"]}

\* An upper-case extension after other characters is accepted.
C1_Witness ==
  /\ pc = "built"
  /\ shape = "ImageUploadResponse"
  /\ payload["url"].s = <<"a", ".", "J", "P", "G">>
  /\ result.ok

\* The payload supplies every field but f with the value the base payload has.
OthersValid(sh, m, f) ==
  /\ DOMAIN m = FieldNames(sh)
  /\ \A g \in FieldNames(sh) \ {f} : m[g] = BasePayload(sh)[g]

\* C2: with all other fields valid, a User/Admin shape (UserResponse,
\* AdminCreate, AdminUpdate, AdminResponse) is constructed from role = r, r a
\* string, exactly when r is "admin" or "worker".
C2_RoleClosedEnum ==
  (/\ pc = "built"
   /\ shape \in RoleShapes
   /\ OthersValid(shape, payload, "role")
   /\ payload["role"].t = "str")
    => (result.ok <=> payload["role"].s \in {admin, worker})

\* f is supplied and passes its declared type and validators, or is omitted
\* and not required.
FieldPasses(sh, m, f) ==
  IF f \in DOMAIN m THEN ValidateValue(sh, FieldOf(sh, f), m[f]).ok
  ELSE ~ FieldOf(sh, f).req
Offending(sh, m) == {f \in FieldNames(sh) : ~ FieldPasses(sh, m, f)}

\* C3: construction of an input shape is all-or-nothing: an instance, holding
\* every declared field, is produced exactly when no declared field is
\* missing-but-required or invalid; otherwise no instance is produced and the
\* errors name exactly the offending fields.
C3_AllOrNothing ==
  pc = "built"
    => LET bad == Offending(shape, payload)
       IN /\ result.ok <=> bad = {}
          /\ result.ok => /\ result.value.t = "model"
                          /\ DOMAIN result.value.values = FieldNames(shape)
          /\ ~ result.ok => /\ result.value = NoneV
                            /\ {e.loc[1] : e \in result.errors} = bad

\* Two fields offend at once: one missing, one of the wrong type.
C3_Witness ==
  /\ pc = "built"
  /\ shape = "DailyExpenseCreate"
  /\ "branch_id" \notin DOMAIN payload
  /\ "unit_cost" \in DOMAIN payload
  /\ payload["unit_cost"] = StrV(<<"x">>)
  /\ {e.loc[1] : e \in result.errors} = {"branch_id", "unit_cost"}

Restrict(m, keys) == [k \in DOMAIN m \cap keys |-> m[k]]
\* The records that agree with m on every attribute sh declares: m without
\* its undeclared attributes, and m with one undeclared attribute changed.
AgreeingRecords(sh, m) ==
  {Restrict(m, FieldNames(sh))}
    \cup {(k :> v) @@ m : k \in ExtraKeys \ FieldNames(sh), v \in ExtraValues}

\* C4: projecting a record through an output shape yields exactly the
\* declared field set: records that differ only in undeclared attributes
\* project to the same output, and a password or password hash on an admin
\* record never appears in an AdminResponse or UserResponse.
C4_ProjectionDropsUndeclared ==
  (pc = "built" /\ source = "object")
    => /\ \A r \in AgreeingRecords(shape, payload) :
            ValidateModel(shape, r, "object") = result
       /\ result.ok => DOMAIN result.value.values = FieldNames(shape)
       /\ (result.ok /\ shape \in {"AdminResponse", "UserResponse"})
            => DOMAIN result.value.values \cap {"password", "hashed_password"} = {}

\* An admin record carrying a password is projected through AdminResponse.
C4_Witness ==
  /\ pc = "built"
  /\ source = "object"
  /\ shape = "AdminResponse"
  /\ "password" \in DOMAIN payload
  /\ result.ok
  /\ "password" \notin DOMAIN result.value.values

\* C5: every Update shape accepts the empty payload and leaves every field
\* unset (not in fields_set, value None); a field absent from the payload
\* stays out of fields_set while the same field supplied as null is in it, so
\* the two instances differ, for every field of every Update shape.
C5_UpdateAbsentVsNull ==
  (pc = "built" /\ shape \in UpdateShapes)
    => /\ payload = EmptyMap =>
            /\ result.ok
            /\ result.value.fields_set = {}
            /\ \A f \in FieldNames(shape) : result.value.values[f] = NoneV
       /\ result.ok =>
            \A f \in FieldNames(shape) :
              LET absent == ValidateModel(shape, Restrict(payload, DOMAIN payload \ {f}), "dict")
                  null == ValidateModel(shape, (f :> NoneV) @@ payload, "dict")
              IN /\ absent.ok /\ null.ok
                 /\ f \notin absent.value.fields_set
                 /\ f \in null.value.fields_set
                 /\ absent.value # null.value

\* An Update shape built from the empty payload.
C5_Witness ==
  /\ pc = "built"
  /\ shape = "BranchUpdate"
  /\ payload = EmptyMap
  /\ result.ok
  /\ result.value.fields_set = {}

\* An Update shape built from a payload that sets one field to null.
C5_WitnessNull ==
  /\ pc = "built"
  /\ shape = "DailyExpenseUpdate"
  /\ DOMAIN payload = {"vendor"}
  /\ payload["vendor"] = NoneV
  /\ result.ok
  /\ result.value.fields_set = {"vendor"}

\* Construction from a record and from the mapping with the same keys and
\* values succeed together and give equal instances.
SameFromBoth(sh, m) ==
  LET obj == ValidateModel(sh, m, "object")
      map == ValidateModel(sh, m, "dict")
  IN /\ obj.ok <=> map.ok
     /\ obj.ok => obj.value = map.value

\* C6 as stated: every output shape (the Response shapes, Token, SalesSummary
\* and DashboardSummary) is populated from an attribute-bearing object exactly
\* as from the mapping with the same keys and values.
C6_AllOutputsFromBoth ==
  (pc = "built" /\ shape \in OutputShapes) => SameFromBoth(shape, payload)

\* The output shapes that declare Config.from_attributes.
AttributeShapes ==
  {"UserResponse", "BranchResponse", "ExpenseCategoryResponse", "DailyExpenseResponse",
   "IngredientResponse", "MenuItemResponse", "OrderItemResponse", "OrderResponse",
   "DailySaleResponse", "AdminResponse", "InventoryResponse", "DailyReportResponse"}

\* C6 as amended: the twelve Response shapes that declare from_attributes are
\* populated from an object exactly as from the mapping with the same keys and
\* values; Token, SalesSummary, DashboardSummary and ImageUploadResponse
\* declare no from_attributes and reject every object with one error on the
\* whole input, also when the same mapping is accepted.
C6_AttributeShapesFromBoth ==
  (pc = "built" /\ shape \in OutputShapes)
    => /\ shape \in AttributeShapes => SameFromBoth(shape, payload)
       /\ shape \notin AttributeShapes =>
            /\ ~ ValidateModel(shape, payload, "object").ok
            /\ \A e \in ValidateModel(shape, payload, "object").errors : e.loc = <<>>
       /\ result = ValidateModel(shape, payload, source)

\* An admin record whose branch is itself a record is projected.
C6_Witness ==
  /\ pc = "built"
  /\ source = "object"
  /\ shape = "AdminResponse"
  /\ payload["branch"].t = "object"
  /\ result.ok
  /\ result.value.values["branch"].t = "model"

\* A Token given as an object is rejected though its mapping is accepted.
C6_WitnessToken ==
  /\ pc = "built"
  /\ source = "object"
  /\ shape = "Token"
  /\ ~ result.ok
  /\ ValidateModel(shape, payload, "dict").ok

\* The value put under key k has no effect on the instance sh constructs.
KeyHasNoEffect(sh, m, k) ==
  \A v \in ExtraValues \cup {NoneV, StrV(<<"b">>), FloatV(5)} :
    ValidateModel(sh, (k :> v) @@ m, "dict")
      = ValidateModel(sh, Restrict(m, DOMAIN m \ {k}), "dict")

\* C7 as stated: neither OrderCreate nor OrderUpdate declares total_amount or
\* status, so the client's values for those keys have no effect on the
\* instance constructed.
C7_TotalAndStatusNotClientSupplied ==
  (pc = "built" /\ shape \in {"OrderCreate", "OrderUpdate"})
    => \A k \in {"total_amount", "status"} :
         /\ k \notin FieldNames(shape)
         /\ KeyHasNoEffect(shape, payload, k)

\* C7 as amended: total_amount is declared by no Order input shape and status
\* is not declared by OrderCreate, so the client's values for them have no
\* effect there; OrderUpdate does declare status, and a string the client
\* supplies for it is the status of the constructed instance.
C7_TotalNotClientSupplied ==
  (pc = "built" /\ shape \in {"OrderCreate", "OrderUpdate"})
    => /\ "total_amount" \notin FieldNames(shape)
       /\ KeyHasNoEffect(shape, payload, "total_amount")
       /\ shape = "OrderCreate" =>
            /\ "status" \notin FieldNames(shape)
            /\ KeyHasNoEffect(shape, payload, "status")
       /\ (shape = "OrderUpdate" /\ result.ok /\ "status" \in DOMAIN payload) =>
            /\ "status" \in result.value.fields_set
            /\ result.value.values["status"] = payload["status"]
       /\ "total_amount" \in FieldNames("OrderResponse")
       /\ "status" \in FieldNames("OrderResponse")

\* An OrderCreate payload carrying total_amount and status is constructed.
C7_Witness ==
  /\ pc = "built"
  /\ shape = "OrderCreate"
  /\ {"total_amount", "status"} \subseteq DOMAIN payload
  /\ result.ok
  /\ DOMAIN result.value.values \cap {"total_amount", "status"} = {}

IsNumber(v) == v.t \in {"int", "float"}
NumTenths(v) == IF v.t = "int" THEN 10 * v.n ELSE v.n

\* a == b on the fields the two values share: instances field by shared
\* field, lists element by element, numbers by value (0 == 0.0).
RECURSIVE SharedEq(_, _)
SharedEq(a, b) ==
  CASE a.t = "model" /\ b.t = "model" ->
         \A f \in DOMAIN a.values \cap DOMAIN b.values :
           SharedEq(a.values[f], b.values[f])
    [] a.t = "list" /\ b.t = "list" ->
         /\ Len(a.items) = Len(b.items)
         /\ \A i \in 1..Len(a.items) : SharedEq(a.items[i], b.items[i])
    [] IsNumber(a) /\ IsNumber(b) -> NumTenths(a) = NumTenths(b)
    [] OTHER -> a = b

\* C8 as stated: every valid output instance of Branch, DailyExpense,
\* Ingredient, MenuItem, Order, OrderItem, DailySale, Admin and Inventory,
\* serialized and parsed with the corresponding Create shape, is accepted with
\* every shared field equal.
C8_RoundTripAll ==
  pc = "reparsed" => (reparsed.ok /\ SharedEq(result.value, reparsed.value))

\* C8 as amended: the round trip is accepted with every shared field equal for
\* Branch, DailyExpense, Ingredient, MenuItem, Order, OrderItem, DailySale and
\* Inventory; for Admin it is rejected with "Field required" on password alone,
\* which AdminResponse does not carry, and is accepted with every shared field
\* equal once a password is added to the mapping.
C8_RoundTripButAdmin ==
  pc = "reparsed"
    => /\ shape # "AdminResponse" =>
            (reparsed.ok /\ SharedEq(result.value, reparsed.value))
       /\ shape = "AdminResponse" =>
            /\ ~ reparsed.ok
            /\ reparsed.errors = {[loc |-> <<"password">>, msg |-> "Field required"]}
            /\ LET again == ValidateModel("AdminCreate",
                              ("password" :> StrV(<<"s">>)) @@ wire, "dict")
               IN again.ok /\ SharedEq(result.value, again.value)

\* An order response with an item went through the round trip.
C8_Witness ==
  /\ pc = "reparsed"
  /\ shape = "OrderResponse"
  /\ reparsed.ok
  /\ Len(reparsed.value.values["items"].items) = 1
  /\ wire["created_at"].t = "str"

ExpenseRequired == {"category", "item_name", "unit_cost", "total_amount", "branch_id"}
ExpenseOptional ==
  {"description", "quantity", "unit", "expense_date", "receipt_number", "vendor"}
ExpenseType(f) ==
  CASE f \in {"unit_cost", "total_amount", "quantity"} -> "float"
    [] f = "branch_id" -> "int"
    [] f = "expense_date" -> "datetime"
    [] OTHER -> "str"
\* m supplies f with a value of the field's type or coercible to it
Coercible(m, f) == f \in DOMAIN m /\ CoerceScalar(ExpenseType(f), m[f]).ok
\* the number a supplied amount denotes, in tenths
Denoted(v) == IF v.t = "str" THEN Tenths(v.s) ELSE NumTenths(v)

\* What C9 says of an accepted expense: an omitted optional field, expense_date
\* among them, is unset (None, not in fields_set), and total_amount is the
\* number supplied, whatever quantity and unit_cost are.
ExpenseAccepted(m, r) ==
  /\ \A f \in ExpenseOptional \ DOMAIN m :
       /\ r.value.values[f] = NoneV
       /\ f \notin r.value.fields_set
  /\ r.value.values["total_amount"] = FloatV(Denoted(m["total_amount"]))

\* C9 as stated: DailyExpenseCreate is constructed exactly when category,
\* item_name, unit_cost, total_amount and branch_id are present and
\* type-coercible; the other fields may be omitted, an omitted expense_date is
\* unset, and any supplied total_amount is accepted unchanged.
C9_ExactlyFivePresent ==
  (pc = "built" /\ shape = "DailyExpenseCreate")
    => /\ result.ok <=> \A f \in ExpenseRequired : Coercible(payload, f)
       /\ result.ok => ExpenseAccepted(payload, result)

\* C9 as amended: DailyExpenseCreate is constructed exactly when category,
\* item_name, unit_cost, total_amount and branch_id are present and
\* type-coercible and each of the other fields is omitted, null or
\* type-coercible; an omitted optional field, expense_date among them, is
\* unset rather than a timestamp, and the supplied total_amount is accepted as
\* the number it denotes with no check against quantity x unit_cost.
C9_FivePresentOthersValid ==
  (pc = "built" /\ shape = "DailyExpenseCreate")
    => /\ result.ok <=>
            /\ \A f \in ExpenseRequired : Coercible(payload, f)
            /\ \A f \in ExpenseOptional \cap DOMAIN payload :
                 payload[f] = NoneV \/ Coercible(payload, f)
       /\ result.ok => ExpenseAccepted(payload, result)

\* An expense without quantity and expense_date whose total is not
\* quantity x unit_cost is accepted.
C9_Witness ==
  /\ pc = "built"
  /\ shape = "DailyExpenseCreate"
  /\ DOMAIN payload \cap {"quantity", "expense_date"} = {}
  /\ result.ok
  /\ result.value.values["expense_date"] = NoneV
  /\ result.value.values["total_amount"] = FloatV(25)
  /\ result.value.values["unit_cost"] = FloatV(25)

\* v is a list whose elements are all mappings OrderItemCreate accepts
ValidItems(v) ==
  /\ v.t = "list"
  /\ \A i \in 1..Len(v.items) :
       /\ v.items[i].t = "dict"
       /\ ValidateModel("OrderItemCreate", v.items[i].m, "dict").ok
\* some element of the list v is not a valid OrderItemCreate
SomeInvalidItem(v) == v.t = "list" /\ ~ ValidItems(v)

\* What C10 says of an accepted order: an empty items list stays empty and an
\* omitted order_type is "dine_in".
OrderAccepted(m, r) ==
  /\ m["items"] = ListV(<<>>) => r.value.values["items"] = ListV(<<>>)
  /\ "order_type" \notin DOMAIN m => r.value.values["order_type"] = StrV(dine_in)

\* C10 as stated: OrderCreate with a valid branch_id and items = [] is
\* constructed, with no items and order_type "dine_in" when omitted;
\* construction fails only when branch_id or items is missing or some element
\* of items is not a valid OrderItemCreate.
C10_FailsOnlyOnMissingOrBadItem ==
  (pc = "built" /\ shape = "OrderCreate")
    => /\ ("branch_id" \in DOMAIN payload /\ CoerceInt(payload["branch_id"]).ok
           /\ "items" \in DOMAIN payload /\ payload["items"] = ListV(<<>>))
            => (result.ok /\ OrderAccepted(payload, result))
       /\ ~ result.ok =>
            \/ "branch_id" \notin DOMAIN payload
            \/ "items" \notin DOMAIN payload
            \/ SomeInvalidItem(payload["items"])

\* C10 as amended: OrderCreate is constructed exactly when branch_id is
\* present and int-coercible, items is present and is a list (of any length,
\* the empty list included) of valid OrderItemCreate elements, customer_name
\* and customer_email are each omitted, null or a string, and order_type is
\* omitted or a string; then an empty items list stays empty and an omitted
\* order_type is "dine_in".
C10_EmptyItemsAccepted ==
  (pc = "built" /\ shape = "OrderCreate")
    => /\ result.ok <=>
            /\ "branch_id" \in DOMAIN payload /\ CoerceInt(payload["branch_id"]).ok
            /\ "items" \in DOMAIN payload /\ ValidItems(payload["items"])
            /\ \A f \in {"customer_name", "customer_email"} \cap DOMAIN payload :
                 payload[f].t \in {"none", "str"}
            /\ "order_type" \in DOMAIN payload => payload["order_type"].t = "str"
       /\ result.ok => OrderAccepted(payload, result)

\* An order with no items and no order_type is accepted.
C10_Witness ==
  /\ pc = "built"
  /\ shape = "OrderCreate"
  /\ "items" \in DOMAIN payload
  /\ payload["items"] = ListV(<<>>)
  /\ "order_type" \notin DOMAIN payload
  /\ result.ok
  /\ result.value.values["items"] = ListV(<<>>)
  /\ result.value.values["order_type"] = StrV(dine_in)

====
